---- MODULE Spec2Model ----
(***************************************************************************)
(* Model of the therapy-tracking backend (enhanced_therapy_backend.py):    *)
(* patient enrollment, daily check-in upsert, week retrieval and the      *)
(* three-sheet weekly report.  Strings that the code parses, formats or    *)
(* sorts (week identifiers, dates) are sequences of one-character strings  *)
(* so that split, int, strftime and sorted are modelled by what they do.   *)
(***************************************************************************)
EXTENDS Integers, Sequences, FiniteSets, TLC

VARIABLES patients, checkinDirs, checkins, exports, logLen, now, resp, resolved,
          disk, inflight

vars == <<patients, checkinDirs, checkins, exports, logLen, now, resp, resolved,
         disk, inflight>>

\* ------------------------------------------------------------------ bounds
\* Entries the activity log of the day may hold (every successful mutating
\* request appends one).
MaxLog == 4
\* The latest second the wall clock is read at.
MaxClock == 1
\* The years the week resolver is applied to: FirstYear .. FirstYear + NumYears.
FirstYear == 2019
NumYears == 11

Years == FirstYear..(FirstYear + NumYears)

\* The element of a one-element set (binds a computed value to a name).
Only(S) == CHOOSE x \in S : TRUE

\* ------------------------------------------------------- characters, int()
Digits == <<"0", "1", "2", "3", "4", "5", "6", "7", "8", "9">>

IsDigit(c) == \E i \in 1..10 : Digits[i] = c

DigitVal(c) == (CHOOSE i \in 1..10 : Digits[i] = c) - 1

\* Code points of the characters that occur in dates and week identifiers.
Ord(c) ==
    CASE c = "-" -> 45
      [] c = "+" -> 43
      [] IsDigit(c) -> 48 + DigitVal(c)
      [] c = "W" -> 87
      [] OTHER -> 120

RECURSIVE DigitsVal(_)
DigitsVal(s) ==
    IF s = << >> THEN 0
    ELSE 10 * DigitsVal(SubSeq(s, 1, Len(s) - 1)) + DigitVal(s[Len(s)])

AllDigits(s) == s # << >> /\ \A i \in 1..Len(s) : IsDigit(s[i])

\* int(s): an optional sign followed by decimal digits; anything else raises.
IntOk(s) ==
    \/ AllDigits(s)
    \/ Len(s) >= 2 /\ s[1] \in {"+", "-"} /\ AllDigits(Tail(s))

IntVal(s) ==
    IF s[1] = "-" THEN 0 - DigitsVal(Tail(s))
    ELSE IF s[1] = "+" THEN DigitsVal(Tail(s))
    ELSE DigitsVal(s)

\* str.split('-W'): the pieces between the non-overlapping occurrences of
\* the separator, scanned left to right.
RECURSIVE SplitW(_, _)
SplitW(s, cur) ==
    IF s = << >> THEN <<cur>>
    ELSE IF Len(s) >= 2 /\ s[1] = "-" /\ s[2] = "W"
         THEN <<cur>> \o SplitW(SubSeq(s, 3, Len(s)), << >>)
         ELSE SplitW(Tail(s), Append(cur, s[1]))

\* year, week_num = week.split('-W'); year = int(year); week_num =
\* int(week_num): <<TRUE, year, week_num>>, or <<FALSE, 0, 0>> when the
\* unpacking or an int() raises.
ParseWeek(week) ==
    LET parts == SplitW(week, << >>) IN
    IF Len(parts) = 2 /\ IntOk(parts[1]) /\ IntOk(parts[2])
    THEN <<TRUE, IntVal(parts[1]), IntVal(parts[2])>>
    ELSE <<FALSE, 0, 0>>

\* ------------------------------------------------ datetime, proleptic days
IsLeap(y) == y % 4 = 0 /\ (y % 100 # 0 \/ y % 400 = 0)

DaysInMonth(y, m) ==
    IF m = 2 THEN (IF IsLeap(y) THEN 29 ELSE 28)
    ELSE IF m \in {4, 6, 9, 11} THEN 30 ELSE 31

DaysBeforeYear(y) ==
    (y - 1) * 365 + (y - 1) \div 4 - (y - 1) \div 100 + (y - 1) \div 400

\* Days of the year before month m in a common year.
DaysBeforeMonthCommon == <<0, 31, 59, 90, 120, 151, 181, 212, 243, 273, 304, 334>>

DaysBeforeMonth(y, m) ==
    DaysBeforeMonthCommon[m] + (IF m > 2 /\ IsLeap(y) THEN 1 ELSE 0)

\* date.toordinal(): 0001-01-01 is day 1.
ToOrdinal(y, m, d) == DaysBeforeYear(y) + DaysBeforeMonth(y, m) + d

\* date.weekday(): Monday is 0.
Weekday(n) == (n + 6) % 7

\* date.fromordinal(n) as <<year, month, day>>: the 400-, 100-, 4- and 1-year
\* cycles of the calendar, then the month by estimate and correction.
FromOrdinal(ordinal) ==
    LET n0 == ordinal - 1
        n400 == n0 \div 146097
        r400 == n0 % 146097
        n100 == r400 \div 36524
        r100 == r400 % 36524
        n4 == r100 \div 1461
        r4 == r100 % 1461
        n1 == r4 \div 365
        n == r4 % 365
        year == n400 * 400 + 1 + n100 * 100 + n4 * 4 + n1
        leapyear == n1 = 3 /\ (n4 # 24 \/ n100 = 3)
        guess == (n + 50) \div 32
        before(m) == DaysBeforeMonthCommon[m] + (IF m > 2 /\ leapyear THEN 1 ELSE 0)
        month == IF before(guess) > n THEN guess - 1 ELSE guess
    IN IF n1 = 4 \/ n100 = 4 THEN <<year - 1, 12, 31>>
       ELSE <<year, month, n - before(month) + 1>>

\* The last w decimal digits of k, most significant first (zero padding of
\* %Y, %m and %d; k has at most w digits here).
Pad(k, w) ==
    IF w = 2 THEN <<Digits[((k \div 10) % 10) + 1], Digits[(k % 10) + 1]>>
    ELSE <<Digits[((k \div 1000) % 10) + 1], Digits[((k \div 100) % 10) + 1],
           Digits[((k \div 10) % 10) + 1], Digits[(k % 10) + 1]>>

\* date.strftime('%Y-%m-%d')
Strftime(n) ==
    LET ymd == FromOrdinal(n)
        y == Pad(ymd[1], 4)
        m == Pad(ymd[2], 2)
        d == Pad(ymd[3], 2)
    IN <<y[1], y[2], y[3], y[4], "-", m[1], m[2], "-", d[1], d[2]>>

\* String comparison a < b, character by character (what sorted() uses).
RECURSIVE StrLess(_, _)
StrLess(a, b) ==
    IF b = << >> THEN FALSE
    ELSE IF a = << >> THEN TRUE
    ELSE IF a[1] # b[1] THEN Ord(a[1]) < Ord(b[1])
    ELSE StrLess(Tail(a), Tail(b))

\* ------------------------------------------------------------ request data
\* request.therapist as the mock_auth decorator sets it on every request.
Therapist ==
    [email |-> "admin@system", name |-> "System Admin", organization |-> "Development"]

PatientIds == {"P1", "P2"}

\* patientData of an enrollment request; << >> is an empty body.
Profile(pid) ==
    [patientId |-> pid, name |-> "Name " \o pid,
     therapistName |-> "Dr T", therapistEmail |-> "t@clinic"]

\* Week identifiers a client may send: two well-formed ones (the first week
\* of 2025 begins in 2024), one whose week number exceeds 53 (it resolves to
\* the dates of 2024-W05), one without the "W" and one with a non-numeric
\* week number.
W2025_01 == <<"2", "0", "2", "5", "-", "W", "0", "1">>
W2024_05 == <<"2", "0", "2", "4", "-", "W", "0", "5">>
W2023_57 == <<"2", "0", "2", "3", "-", "W", "5", "7">>
WNoSep == <<"2", "0", "2", "4", "-", "5">>
WNonNum == <<"2", "0", "2", "4", "-", "W", "x", "x">>

WeekInputs == {W2025_01, W2024_05, W2023_57, WNoSep, WNonNum}

\* Dates a client may submit a check-in for.
D2024_12_30 == <<"2", "0", "2", "4", "-", "1", "2", "-", "3", "0">>
D2025_01_01 == <<"2", "0", "2", "5", "-", "0", "1", "-", "0", "1">>
D2024_01_29 == <<"2", "0", "2", "4", "-", "0", "1", "-", "2", "9">>

Rating(v, n) == [value |-> v, notes |-> n]

\* The ratings of a check-in submission; an absent notes key and an empty
\* note are both "" (both are falsy and both render as '').
BodyA == [time |-> "09:00", emotional |-> Rating(5, ""),
          medication |-> Rating(5, ""), activity |-> Rating(4, "")]
BodyB == [time |-> "18:30", emotional |-> Rating(2, "low"),
          medication |-> Rating(0, ""), activity |-> Rating(3, "")]
BodyC == [time |-> "12:00", emotional |-> Rating(3, "calm"),
          medication |-> Rating(3, "late"), activity |-> Rating(5, "walk")]

\* checkinData a client may submit: complete check-ins (two different ones
\* for the same date among them), one without 'activity', one without
\* 'date', and an empty body.
CheckinInputs ==
    {[date |-> D2024_12_30] @@ BodyA, [date |-> D2024_12_30] @@ BodyB,
     [date |-> D2025_01_01] @@ BodyB, [date |-> D2024_01_29] @@ BodyC,
     [date |-> D2024_12_30, time |-> "09:00", emotional |-> Rating(5, ""),
      medication |-> Rating(5, "")],
     BodyA, << >>}

\* ------------------------------------------------------------------ storage
PatientExists(pid) == pid \in DOMAIN patients

CheckinExists(pid, ds) == <<pid, ds>> \in DOMAIN checkins

\* if patient.get('enrolledBy') != request.therapist['email'] and
\*    request.therapist['email'] != 'admin@system'
Unauthorized(pid) ==
    /\ patients[pid].enrolledBy # Therapist.email
    /\ Therapist.email # "admin@system"

RequiredFields == {"date", "time", "emotional", "medication", "activity"}

\* No request is being answered.
Idle == resp.op = "none"

\* What a handler answers and what it touched on the way: the files it
\* opened for reading and the export it wrote, if any.
Reply(op, pid, status, error, reads) ==
    [op |-> op, pid |-> pid, status |-> status, error |-> error, reads |-> reads]

\* ------------------------------------------------------------ get_week_data
\* A week start one week late: timedelta(weeks=week_num).
WeekStartOneWeekLate(year, week_num) ==
    LET jan_4 == ToOrdinal(year, 1, 4)
    IN jan_4 - Weekday(jan_4) + 7 * week_num

\* jan_4 - timedelta(days=jan_4.weekday()) + timedelta(weeks=week_num - 1),
\* as get_week_data computes it.
WeekStartGWD(year, week_num) ==
    LET jan_4 == ToOrdinal(year, 1, 4)
        week_1_monday == jan_4 - Weekday(jan_4)
    IN week_1_monday + 7 * (week_num - 1)

\* The dates datetime can hold: 0001-01-01 .. 9999-12-31.
DateInRange(n) == n >= 1 /\ n <= 3652059

\* Lines 451-459: <<TRUE, week_start>>, or <<FALSE, 0>> when the parsing,
\* datetime(year, 1, 4) or the date arithmetic of the loop raises.
ResolveGWD(week) ==
    LET p == ParseWeek(week) IN
    IF p[1] /\ p[2] >= 1 /\ p[2] <= 9999
    THEN LET week_start == WeekStartGWD(p[2], p[3]) IN
         IF DateInRange(week_start) /\ DateInRange(week_start + 6)
         THEN <<TRUE, week_start>>
         ELSE <<FALSE, 0>>
    ELSE <<FALSE, 0>>

\* A loop that leaves out the week's first day: range(1, 7).
WeekFilesFromTuesday(pid, week_start, readsP) ==
    Only({[status |-> 200, error |-> "",
           weekData |-> [ds \in found |-> checkins[<<pid, ds>>]],
           reads |-> readsP \cup {<<"checkin", pid, ds>> : ds \in found}]
          : found \in {{ds \in {Strftime(week_start + i) : i \in 1..6} :
                          CheckinExists(pid, ds)}}})

\* Lines 461-469: the check-in files of the week that exist, loaded.
WeekFiles(pid, week_start, readsP) ==
    Only({[status |-> 200, error |-> "",
           weekData |-> [ds \in found |-> checkins[<<pid, ds>>]],
           reads |-> readsP \cup {<<"checkin", pid, ds>> : ds \in found}]
          : found \in {{ds \in {Strftime(week_start + i) : i \in 0..6} :
                          CheckinExists(pid, ds)}}})

\* The body of GET /api/therapy/get-week-data/<patient_id>/<week>: the
\* response and the files opened on the way.
GetWeekData(pid, week) ==
    LET readsP == IF PatientExists(pid) THEN {<<"patient", pid>>} ELSE {}
    IN
    IF PatientExists(pid) /\ Unauthorized(pid)
    THEN [status |-> 403, error |-> "Unauthorized access", weekData |-> << >>,
          reads |-> readsP]
    ELSE IF pid \notin checkinDirs
    THEN [status |-> 200, error |-> "", weekData |-> << >>, reads |-> readsP]
    ELSE Only({IF r[1]
               THEN WeekFiles(pid, r[2], readsP)
               ELSE [status |-> 500, error |-> "ValueError", weekData |-> << >>,
                     reads |-> readsP]
               : r \in {ResolveGWD(week)}})

\* ---------------------------------------------------- generate_excel_report
RECURSIVE SumOver(_, _, _)
\* sum(data[field]['value'] for data in week_data.values())
SumOver(week_data, field, keys) ==
    IF keys = {} THEN 0
    ELSE LET k == CHOOSE x \in keys : TRUE
         IN week_data[k][field].value + SumOver(week_data, field, keys \ {k})

\* f"{num / den:.1f}" and f"{num / den:.2f}": the quotient rounded to the
\* nearest unit of the last place (den <= 7 leaves no ties).
FmtFixed(num, den, places) ==
    LET scale == IF places = 1 THEN 10 ELSE 100
        q == (2 * num * scale + den) \div (2 * den)
        frac == q % scale
    IN ToString(q \div scale) \o "."
           \o (IF places = 2 /\ frac < 10 THEN "0" ELSE "") \o ToString(frac)

\* A statistics block that formats the averages whether or not a day was
\* completed.
SummaryStatsNoNA(week_data) ==
    LET completed_days == Cardinality(DOMAIN week_data)
        keys == DOMAIN week_data
        avg(field) ==
            FmtFixed(SumOver(week_data, field, keys),
                     IF completed_days > 0 THEN completed_days ELSE 1, 2) \o "/5"
    IN [completed_days |-> completed_days,
        completion |-> ToString(completed_days) \o "/7 ("
                           \o FmtFixed(completed_days * 100, 7, 1) \o "%)",
        avgEmotional |-> avg("emotional"),
        avgMedication |-> avg("medication"),
        avgActivity |-> avg("activity")]

\* Lines 589-609: the "Weekly Statistics" block of the summary sheet.
SummaryStats(week_data) ==
    LET total_days == 7
        completed_days == Cardinality(DOMAIN week_data)
        keys == DOMAIN week_data
        avg(field) ==
            IF completed_days > 0
            THEN FmtFixed(SumOver(week_data, field, keys), completed_days, 2) \o "/5"
            ELSE "N/A"
    IN [completed_days |-> completed_days,
        completion |-> ToString(completed_days) \o "/" \o ToString(total_days) \o " ("
                           \o FmtFixed(completed_days * 100, 7, 1) \o "%)",
        avgEmotional |-> avg("emotional"),
        avgMedication |-> avg("medication"),
        avgActivity |-> avg("activity")]

\* A week start counted from January 1 and one week late:
\* jan_1 - timedelta(days=jan_1.weekday()) + timedelta(weeks=week_num).
WeekStartFromJan1(year, week_num) ==
    LET jan_1 == ToOrdinal(year, 1, 1)
    IN jan_1 - Weekday(jan_1) + 7 * week_num

\* The week start as generate_excel_report computes it for the daily sheet.
WeekStartGER(year, week_num) ==
    LET jan_4 == ToOrdinal(year, 1, 4)
        week_1_monday == jan_4 - Weekday(jan_4)
    IN week_1_monday + 7 * (week_num - 1)

\* Lines 633-641 and the date arithmetic of the daily loop.
ResolveGER(week) ==
    LET p == ParseWeek(week) IN
    IF p[1] /\ p[2] >= 1 /\ p[2] <= 9999
    THEN LET week_start == WeekStartGER(p[2], p[3]) IN
         IF DateInRange(week_start) /\ DateInRange(week_start + 6)
         THEN <<TRUE, week_start>>
         ELSE <<FALSE, 0>>
    ELSE <<FALSE, 0>>

days_of_week ==
    <<"Monday", "Tuesday", "Wednesday", "Thursday", "Friday", "Saturday", "Sunday">>

\* A rendering that has no label for 5 and no fallback of its own.
MedicationTextUnlabelled(med_value) ==
    CASE med_value = 0 -> "Not Applicable"
      [] med_value = 1 -> "No Doses"
      [] med_value = 3 -> "Partial Doses"
      [] OTHER -> "Other"

\* {0: "Not Applicable", 1: "No Doses", 3: "Partial Doses",
\*  5: "Yes, All Doses"}.get(med_value, str(med_value))
MedicationText(med_value) ==
    CASE med_value = 0 -> "Not Applicable"
      [] med_value = 1 -> "No Doses"
      [] med_value = 3 -> "Partial Doses"
      [] med_value = 5 -> "Yes, All Doses"
      [] OTHER -> ToString(med_value)

Green == "C6EFCE"
Yellow == "FFEB9C"
Red == "FFC7CE"
NoFill == ""

\* A banding whose favourable band starts at 5.
ScaleFillFromFive(value) ==
    IF value >= 5 THEN Green ELSE IF value >= 3 THEN Yellow ELSE Red

\* Fill of the emotional and of the activity cell.
ScaleFill(value) ==
    IF value >= 4 THEN Green ELSE IF value = 3 THEN Yellow ELSE Red

\* Fill of the medication cell.
MedicationFill(med_value) ==
    CASE med_value = 1 -> Red
      [] med_value = 3 -> Yellow
      [] med_value = 5 -> Green
      [] OTHER -> NoFill

\* A cell holding a number and a cell holding text.
Num(v) == [num |-> v]
Txt(t) == [txt |-> t]

\* A daily row that takes the first check-in of the week for every day.
DailyRowOfFirst(week_data, week_start, day_num) ==
    LET date_str == Strftime(week_start + day_num)
    IN
    IF week_data # << >>
    THEN LET data == week_data[CHOOSE k \in DOMAIN week_data :
                                   \A o \in DOMAIN week_data \ {k} : StrLess(k, o)]
         IN
         [date |-> date_str, day |-> days_of_week[day_num + 1],
          time |-> data.time,
          emotional |-> Num(data.emotional.value),
          emotionalNotes |-> data.emotional.notes,
          medication |-> MedicationText(data.medication.value),
          medicationNotes |-> data.medication.notes,
          activity |-> Num(data.activity.value),
          activityNotes |-> data.activity.notes,
          status |-> "Completed",
          emotionalFill |-> ScaleFill(data.emotional.value),
          medicationFill |-> MedicationFill(data.medication.value),
          activityFill |-> ScaleFill(data.activity.value),
          statusFill |-> NoFill]
    ELSE [date |-> date_str, day |-> days_of_week[day_num + 1],
          time |-> "-",
          emotional |-> Txt("-"), emotionalNotes |-> "-",
          medication |-> "-", medicationNotes |-> "-",
          activity |-> Txt("-"), activityNotes |-> "-",
          status |-> "No Response",
          emotionalFill |-> NoFill, medicationFill |-> NoFill,
          activityFill |-> NoFill, statusFill |-> Red]

\* Lines 646-710: the row of the daily sheet for day day_num of the week.
DailyRow(week_data, week_start, day_num) ==
    LET date_str == Strftime(week_start + day_num)
    IN
    IF date_str \in DOMAIN week_data
    THEN LET data == week_data[date_str] IN
         [date |-> date_str, day |-> days_of_week[day_num + 1],
          time |-> data.time,
          emotional |-> Num(data.emotional.value),
          emotionalNotes |-> data.emotional.notes,
          medication |-> MedicationText(data.medication.value),
          medicationNotes |-> data.medication.notes,
          activity |-> Num(data.activity.value),
          activityNotes |-> data.activity.notes,
          status |-> "Completed",
          emotionalFill |-> ScaleFill(data.emotional.value),
          medicationFill |-> MedicationFill(data.medication.value),
          activityFill |-> ScaleFill(data.activity.value),
          statusFill |-> NoFill]
    ELSE [date |-> date_str, day |-> days_of_week[day_num + 1],
          time |-> "-",
          emotional |-> Txt("-"), emotionalNotes |-> "-",
          medication |-> "-", medicationNotes |-> "-",
          activity |-> Txt("-"), activityNotes |-> "-",
          status |-> "No Response",
          emotionalFill |-> NoFill, medicationFill |-> NoFill,
          activityFill |-> NoFill, statusFill |-> Red]

RECURSIVE SortedReverse(_)
\* The keys in descending order.
SortedReverse(keys) ==
    IF keys = {} THEN << >>
    ELSE LET last == CHOOSE x \in keys : \A y \in keys \ {x} : StrLess(y, x)
         IN <<last>> \o SortedReverse(keys \ {last})

RECURSIVE Sorted(_)
\* sorted(week_data.keys())
Sorted(keys) ==
    IF keys = {} THEN << >>
    ELSE LET first == CHOOSE x \in keys : \A y \in keys \ {x} : StrLess(x, y)
         IN <<first>> \o Sorted(keys \ {first})

\* Lines 729-758: the rows of the notes sheet one date contributes.
NotesOfDate(date_str, data) ==
    (IF data.emotional.notes # ""
     THEN <<[date |-> date_str, category |-> "Emotional",
             rating |-> Num(data.emotional.value), notes |-> data.emotional.notes]>>
     ELSE << >>)
    \o (IF data.medication.notes # ""
        THEN <<[date |-> date_str, category |-> "Medication",
                rating |-> Txt(MedicationText(data.medication.value)),
                notes |-> data.medication.notes]>>
        ELSE << >>)
    \o (IF data.activity.notes # ""
        THEN <<[date |-> date_str, category |-> "Physical Activity",
                rating |-> Num(data.activity.value), notes |-> data.activity.notes]>>
        ELSE << >>)

RECURSIVE NotesRows(_, _)
NotesRows(week_data, dates) ==
    IF dates = << >> THEN << >>
    ELSE NotesOfDate(Head(dates), week_data[Head(dates)])
             \o NotesRows(week_data, Tail(dates))

\* A workbook whose completed days count the exports already saved too.
WorkbookCountingExports(pid, week, week_start, week_data, t) ==
    LET patient_data == patients[pid]
        stats == SummaryStats(week_data)
    IN [info |-> [patientId |-> patient_data.patientId,
                  name |-> patient_data.name,
                  therapist |-> patient_data.therapistName,
                  therapistEmail |-> patient_data.therapistEmail,
                  week |-> week,
                  generated |-> t \div 60],
        stats |-> [stats EXCEPT !.completed_days = @ + Cardinality(DOMAIN exports)],
        daily |-> [r \in 1..7 |-> DailyRow(week_data, week_start, r - 1)],
        notes |-> NotesRows(week_data, Sorted(DOMAIN week_data))]

\* The workbook generate_excel_report builds from the patient record and the
\* week data: summary sheet, daily sheet, notes sheet.
Workbook(pid, week, week_start, week_data, t) ==
    LET patient_data == patients[pid]
    IN [info |-> [patientId |-> patient_data.patientId,
                  name |-> patient_data.name,
                  therapist |-> patient_data.therapistName,
                  therapistEmail |-> patient_data.therapistEmail,
                  week |-> week,
                  generated |-> t \div 60],
        stats |-> SummaryStats(week_data),
        daily |-> [r \in 1..7 |-> DailyRow(week_data, week_start, r - 1)],
        notes |-> NotesRows(week_data, Sorted(DOMAIN week_data))]

\* therapy_report_{patient_id}_{week}_{timestamp}.xlsx, the timestamp being
\* the clock reading t to the second.
ExportName(pid, week, t) == [pid |-> pid, week |-> week, timestamp |-> t]

NoFile == [pid |-> "", week |-> << >>, timestamp |-> 0]

ReportFailure(status, error, reads) ==
    [status |-> status, error |-> error, reads |-> reads,
     filename |-> NoFile, workbook |-> << >>]

\* Lines 535-781 of generate_excel_report, given what get_week_data returned,
\* the week start of the daily sheet and the clock reading t.
ReportOfWeek(pid, week, week_response, resolution, t) ==
    LET reads == {<<"patient", pid>>} \cup week_response.reads IN
    IF week_response.status # 200
    THEN ReportFailure(500, "'tuple' object has no attribute 'get_json'", reads)
    ELSE IF ~resolution[1]
    THEN ReportFailure(500, "ValueError", reads)
    ELSE [status |-> 200, error |-> "", reads |-> reads,
          filename |-> ExportName(pid, week, t),
          workbook |-> Workbook(pid, week, resolution[2], week_response.weekData, t)]

\* The body of GET /api/therapy/generate-excel-report/<patient_id>/<week>
\* up to wb.save, datetime.now() reading t: the response, the files opened
\* and the workbook to save.
GenerateReport(pid, week, t) ==
    IF ~PatientExists(pid) THEN ReportFailure(404, "Patient not found", {})
    ELSE IF Unauthorized(pid)
    THEN ReportFailure(403, "Unauthorized access", {<<"patient", pid>>})
    ELSE Only({ReportOfWeek(pid, week, wr, res, t)
               : wr \in {GetWeekData(pid, week)}, res \in {ResolveGER(week)}})

Init ==
    /\ patients = << >>
    /\ checkinDirs = {}
    /\ checkins = << >>
    /\ exports = << >>
    /\ logLen = 0
    /\ now = 0
    /\ resp = [op |-> "none"]
    /\ resolved = << >>
    /\ disk = << >>
    /\ inflight = << >>

\* POST /api/therapy/save-patient.  enrollmentTimestamp and, in a check-in,
\* serverTimestamp are clock readings that no handler reads back; the stored
\* records are modelled without them.
SaveTherapyPatient(pid, pdata) ==
    /\ Idle
    /\ IF pid = "" \/ pdata = << >>
       THEN /\ resp' = Reply("save-patient", pid, 400, "Missing patient ID or data", {})
            /\ UNCHANGED <<patients, checkinDirs, checkins, exports, logLen, now, resolved, disk, inflight>>
       ELSE /\ logLen < MaxLog
            /\ patients' =
                   (pid :> ([enrolledBy |-> Therapist.email,
                             therapistOrganization |-> Therapist.organization,
                             weeklyReports |-> << >>] @@ pdata))
                       @@ patients
            /\ logLen' = logLen + 1
            /\ resp' = Reply("save-patient", pid, 200, "", {})
            /\ UNCHANGED <<checkinDirs, checkins, exports, now, resolved, disk, inflight>>

\* A write that leaves an existing check-in file of the date as it is.
StoreCheckinKeepFirst(pid, data) ==
    checkins @@ (<<pid, data.date>> :> ([recordedBy |-> Therapist.email] @@ data))

\* Lines 397-411: the check-in file checkin_{date}.json of the patient's
\* directory, opened with 'w' and holding the submitted data and recordedBy.
StoreCheckin(pid, data) ==
    (<<pid, data.date>> :> ([recordedBy |-> Therapist.email] @@ data)) @@ checkins

\* POST /api/therapy/save-checkin
SaveTherapyCheckin(pid, data) ==
    LET fail(status, error, reads) ==
            /\ resp' = Reply("save-checkin", pid, status, error, reads)
            /\ UNCHANGED <<patients, checkinDirs, checkins, exports, logLen, now, resolved, disk, inflight>>
    IN
    /\ Idle
    /\ IF pid = "" \/ data = << >>
       THEN fail(400, "Missing patient ID or check-in data", {})
       ELSE IF ~PatientExists(pid)
       THEN fail(404, "Patient not found", {})
       ELSE IF Unauthorized(pid)
       THEN fail(403, "Unauthorized access to patient", {<<"patient", pid>>})
       ELSE IF ~(RequiredFields \subseteq DOMAIN data)
       THEN fail(400, "Missing required field", {<<"patient", pid>>})
       ELSE /\ logLen < MaxLog
            /\ checkinDirs' = checkinDirs \cup {pid}
            /\ checkins' = StoreCheckin(pid, data)
            /\ logLen' = logLen + 1
            /\ resp' = Reply("save-checkin", pid, 200, "", {<<"patient", pid>>})
            /\ UNCHANGED <<patients, exports, now, resolved, disk, inflight>>

\* GET /api/therapy/get-week-data/<patient_id>/<week>
GetWeekDataRequest(pid, week) ==
    /\ Idle
    /\ resp' = [op |-> "get-week-data", pid |-> pid, week |-> week] @@ GetWeekData(pid, week)
    /\ UNCHANGED <<patients, checkinDirs, checkins, exports, logLen, now, resolved, disk, inflight>>

\* A report handler that also appends the week to the patient's report
\* history.
GenerateExcelReportRecordingWeek(pid, week, t) ==
    /\ Idle
    /\ \E r \in {GenerateReport(pid, week, t)} :
       IF r.status = 200
       THEN /\ logLen < MaxLog
            /\ exports' = (r.filename :> r.workbook) @@ exports
            /\ patients' = [patients EXCEPT ![pid].weeklyReports = Append(@, week)]
            /\ logLen' = logLen + 1
            /\ now' = t
            /\ resp' = [op |-> "report", pid |-> pid, week |-> week] @@ r
            /\ UNCHANGED <<checkinDirs, checkins, resolved, disk, inflight>>
       ELSE /\ resp' = [op |-> "report", pid |-> pid, week |-> week] @@ r
            /\ UNCHANGED <<patients, checkinDirs, checkins, exports, logLen, now, resolved, disk, inflight>>

\* GET /api/therapy/generate-excel-report/<patient_id>/<week>
\* datetime.now() reads t, not earlier than the previous reading.
GenerateExcelReport(pid, week, t) ==
    /\ Idle
    /\ \E r \in {GenerateReport(pid, week, t)} :
       IF r.status = 200
       THEN /\ logLen < MaxLog
            /\ exports' = (r.filename :> r.workbook) @@ exports
            /\ logLen' = logLen + 1
            /\ now' = t
            /\ resp' = [op |-> "report", pid |-> pid, week |-> week] @@ r
            /\ UNCHANGED <<patients, checkinDirs, checkins, resolved, disk, inflight>>
       ELSE /\ resp' = [op |-> "report", pid |-> pid, week |-> week] @@ r
            /\ UNCHANGED <<patients, checkinDirs, checkins, exports, logLen, now, resolved, disk, inflight>>

\* The client receives the response; it sends its requests one after
\* the other.
Return ==
    /\ resp.op # "none"
    /\ resp' = [op |-> "none"]
    /\ UNCHANGED <<patients, checkinDirs, checkins, exports, logLen, now, resolved, disk, inflight>>

\* The week resolution of both call sites applied to the identifier
\* f"{year}-W{week_num:02d}" that was drawn initially.
ResolveWeek ==
    /\ resolved # << >>
    /\ resolved.gwd = << >>
    /\ resolved' =
           [resolved EXCEPT
               !.gwd = [i \in 1..7 |-> Strftime(ResolveGWD(resolved.week)[2] + i - 1)],
               !.ger = [i \in 1..7 |-> Strftime(ResolveGER(resolved.week)[2] + i - 1)]]
    /\ UNCHANGED <<patients, checkinDirs, checkins, exports, logLen, now, resp, disk, inflight>>

Next ==
    \/ \E pid \in PatientIds : \E pdata \in {Profile(pid), << >>} : SaveTherapyPatient(pid, pdata)
    \/ \E pid \in PatientIds, data \in CheckinInputs : SaveTherapyCheckin(pid, data)
    \/ \E pid \in PatientIds, week \in WeekInputs : GetWeekDataRequest(pid, week)
    \/ \E pid \in PatientIds, week \in WeekInputs : \E t \in now..MaxClock :
           GenerateExcelReport(pid, week, t)
    \/ Return

Spec == Init /\ [][Next]_vars

\* The week resolver alone, over every week number of every year of Years.
InitWeek ==
    /\ patients = << >>
    /\ checkinDirs = {}
    /\ checkins = << >>
    /\ exports = << >>
    /\ logLen = 0
    /\ now = 0
    /\ resp = [op |-> "none"]
    /\ resolved \in {[year |-> year, week_num |-> week_num,
                      week |-> Pad(year, 4) \o <<"-", "W">> \o Pad(week_num, 2),
                      gwd |-> << >>, ger |-> << >>] :
                     year \in Years, week_num \in 1..53}
    /\ disk = << >>
    /\ inflight = << >>

NextWeek == ResolveWeek

SpecWeek == InitWeek /\ [][NextWeek]_vars
\* ------------------------------------------------ repeated report generation
\* The patient file save_therapy_patient writes for a profile and the
\* check-in file save_therapy_checkin writes for a submission.
EnrolledRecord(pid) ==
    [enrolledBy |-> Therapist.email,
     therapistOrganization |-> Therapist.organization,
     weeklyReports |-> << >>] @@ Profile(pid)

StoredRecord(data) == [recordedBy |-> Therapist.email] @@ data

\* Check-in stores of patient P1 left by earlier requests: for each date
\* none or one of the check-ins a client may submit for it.
StoredCheckins ==
    {[k \in {<<"P1", data.date>> : data \in chosen} |->
         StoredRecord(CHOOSE data \in chosen : data.date = k[2])] :
     chosen \in {c \in SUBSET {data \in CheckinInputs : RequiredFields \subseteq DOMAIN data} :
                    \A a, b \in c : a.date = b.date => a = b}}

\* The week identifiers of the repeated requests.
RegenWeekInputs == {W2025_01, W2024_05}

\* P1 enrolled, check-ins of P1 stored, a new day's activity log.
InitRegen ==
    /\ patients = [pid \in {"P1"} |-> EnrolledRecord(pid)]
    /\ checkins \in {IF c = << >> THEN << >> ELSE c : c \in StoredCheckins}
    /\ checkinDirs = {k[1] : k \in DOMAIN checkins}
    /\ exports = << >>
    /\ logLen = 0
    /\ now = 0
    /\ resp = [op |-> "none"]
    /\ resolved = << >>
    /\ disk = << >>
    /\ inflight = << >>

\* Nothing but report generation happens.
NextRegen ==
    \/ \E pid \in PatientIds, week \in RegenWeekInputs : \E t \in now..MaxClock :
           GenerateExcelReport(pid, week, t)
    \/ Return

SpecRegen == InitRegen /\ [][NextRegen]_vars

\* ----------------------------------------------------- email_therapy_report
\* What the mail environment of a request is: whether SENDGRID_API_KEY is
\* set (and the library present) and what the SendGrid call then does, and
\* whether get_system_email_config() finds a configuration and what the SMTP
\* conversation then does.
SendgridOutcomes == {"unset", "accepted", "refused", "error"}

SmtpOutcomes == {"unset", "sent", "auth", "smtp", "general"}

MailConfigs == [sendgrid : SendgridOutcomes, smtp : SmtpOutcomes]

Mail(sendgrid, smtp) == [sendgrid |-> sendgrid, smtp |-> smtp]

\* The mail environments a request is made in: every outcome of either
\* transport alone, and a failing SendGrid call with SMTP configured.
MailInputs ==
    {Mail("unset", "unset"), Mail("accepted", "unset"), Mail("refused", "unset"),
     Mail("error", "unset"), Mail("unset", "sent"), Mail("unset", "auth"),
     Mail("unset", "smtp"), Mail("unset", "general"), Mail("error", "sent"),
     Mail("error", "auth")}

\* The week identifiers of the email requests.
EmailWeekInputs == {W2025_01, WNonNum}

\* The averages of the email body (lines 844-859): the medication average
\* is taken over the values greater than 0.
EmailSummary(week_data) ==
    LET keys == DOMAIN week_data
        completed_days == Cardinality(keys)
        med == {k \in keys : week_data[k].medication.value > 0}
        avg(field) ==
            IF completed_days > 0
            THEN FmtFixed(SumOver(week_data, field, keys), completed_days, 2) \o "/5"
            ELSE "0.00/5"
        avg_medication ==
            IF completed_days > 0 /\ med # {}
            THEN FmtFixed(SumOver(week_data, "medication", med), Cardinality(med), 2)
                     \o "/5 (excluding N/A)"
            ELSE "0.00/5 "
    IN [completed_days |-> completed_days,
        completion |-> ToString(completed_days) \o "/7 days ("
                           \o FmtFixed(completed_days * 100, 7, 1) \o "%)",
        avgEmotional |-> avg("emotional"),
        avgMedication |-> avg_medication,
        avgActivity |-> avg("activity")]

\* email_content: the fields the f-string of lines 880-901 interpolates.
EmailContent(pid, week, week_data) ==
    [therapistName |-> patients[pid].therapistName,
     name |-> patients[pid].name,
     patientId |-> pid,
     week |-> week,
     summary |-> EmailSummary(week_data),
     generatedBy |-> Therapist.email]

\* A dispatch that opens the SMTP conversation whether or not a
\* configuration was found.
DispatchUnconfigured(cfg) ==
    [attempts |-> <<[via |-> "smtp", outcome |-> cfg.smtp]>>,
     email_sent |-> FALSE,
     error_message |-> "General error",
     config_found |-> FALSE]

\* Lines 904-970: the send attempts in their order, each with the transport
\* and whether it raised; email_sent; error_message; and whether
\* system_email_config is set and truthy afterwards.
Dispatch(cfg) ==
    LET first ==
            IF cfg.sendgrid = "unset" THEN << >>
            ELSE <<[via |-> "sendgrid", outcome |-> cfg.sendgrid]>>
        sent1 == cfg.sendgrid = "accepted"
        error1 == IF cfg.sendgrid = "error" THEN "SendGrid error" ELSE ""
        second ==
            IF sent1 \/ cfg.smtp = "unset" THEN << >>
            ELSE <<[via |-> "smtp", outcome |-> cfg.smtp]>>
        error2 ==
            CASE sent1 \/ cfg.smtp \in {"unset", "sent"} -> error1
              [] cfg.smtp = "auth" -> "Authentication failed"
              [] cfg.smtp = "smtp" -> "SMTP error"
              [] OTHER -> "General error"
    IN [attempts |-> first \o second,
        email_sent |-> sent1 \/ cfg.smtp = "sent",
        error_message |-> error2,
        config_found |-> ~sent1 /\ cfg.smtp # "unset"]

\* A response of email_therapy_report that carries no email.
EmailFailure(status, error, reads, cfg) ==
    [status |-> status, error |-> error, reads |-> reads, mail |-> cfg,
     filename |-> NoFile, workbook |-> << >>, attempts |-> << >>,
     sent |-> FALSE, message |-> "", content |-> << >>, attachment |-> NoFile,
     note |-> ""]

\* Lines 836-1022, given the report generate_excel_report produced: the
\* export found for the attachment is the newest one with the prefix
\* therapy_report_{patient_id}_{week}_, which is the one just written.
EmailOfReport(pid, week, report, cfg) ==
    LET week_data == GetWeekData(pid, week).weekData
        d == Dispatch(cfg)
        excel_filename == report.filename
    IN [status |-> 200,
        error |-> IF d.email_sent THEN "" ELSE d.error_message,
        reads |-> report.reads, mail |-> cfg,
        filename |-> report.filename, workbook |-> report.workbook,
        attempts |-> d.attempts,
        sent |-> d.email_sent,
        message |-> IF d.email_sent THEN "Email sent successfully"
                    ELSE "Email report prepared",
        content |-> IF d.email_sent THEN << >> ELSE EmailContent(pid, week, week_data),
        attachment |-> IF d.email_sent THEN NoFile ELSE excel_filename,
        note |-> IF d.email_sent THEN "Email sent with Excel attachment"
                 ELSE IF d.config_found
                 THEN "Email configuration found but sending failed"
                 ELSE "Email not sent - system email not configured. Contact administrator."]

\* The body of POST /api/therapy/email-report, datetime.now() of the nested
\* report generation reading t.
EmailReport(pid, week, cfg, t) ==
    IF ~PatientExists(pid) THEN EmailFailure(404, "Patient not found", {}, cfg)
    ELSE IF Unauthorized(pid)
    THEN EmailFailure(403, "Unauthorized access", {<<"patient", pid>>}, cfg)
    ELSE Only({IF report.status # 200
               THEN EmailFailure(500, "Failed to generate Excel report", report.reads, cfg)
               ELSE EmailOfReport(pid, week, report, cfg)
               : report \in {GenerateReport(pid, week, t)}})

\* POST /api/therapy/email-report: the nested generate_excel_report saves
\* the export and logs 'report_generated'; a sent email logs 'email_sent'.
EmailTherapyReport(pid, week, cfg, t) ==
    /\ Idle
    /\ \E r \in {EmailReport(pid, week, cfg, t)} :
       IF r.filename # NoFile
       THEN /\ logLen + (IF r.sent THEN 2 ELSE 1) <= MaxLog
            /\ exports' = (r.filename :> r.workbook) @@ exports
            /\ logLen' = logLen + (IF r.sent THEN 2 ELSE 1)
            /\ now' = t
            /\ resp' = [op |-> "email", pid |-> pid, week |-> week] @@ r
            /\ UNCHANGED <<patients, checkinDirs, checkins, resolved, disk, inflight>>
       ELSE /\ resp' = [op |-> "email", pid |-> pid, week |-> week] @@ r
            /\ UNCHANGED <<patients, checkinDirs, checkins, exports, logLen, now, resolved,
                           disk, inflight>>

NextEmail ==
    \/ \E pid \in PatientIds : \E pdata \in {Profile(pid), << >>} : SaveTherapyPatient(pid, pdata)
    \/ \E pid \in PatientIds, data \in CheckinInputs : SaveTherapyCheckin(pid, data)
    \/ \E pid \in PatientIds, week \in EmailWeekInputs, cfg \in MailInputs :
           \E t \in now..MaxClock : EmailTherapyReport(pid, week, cfg, t)
    \/ Return

SpecEmail == Init /\ [][NextEmail]_vars

\* ------------------------------------------------------ delete_patient_data
\* A removal that leaves the check-in files where they are.
RemoveTreeNothing(pid) == checkins

\* shutil.rmtree(checkin_dir): every check-in file of the patient goes.
RemoveTree(pid) ==
    LET kept == {k \in DOMAIN checkins : k[1] # pid}
    IN IF kept = {} THEN << >> ELSE [k \in kept |-> checkins[k]]

\* os.remove(patient_file)
RemovePatient(pid) ==
    LET kept == DOMAIN patients \ {pid}
    IN IF kept = {} THEN << >> ELSE [p \in kept |-> patients[p]]

\* DELETE /api/privacy/delete-patient/<patient_id>.  The response carries,
\* besides the files read, the files removed.
DeletePatientData(pid) ==
    /\ Idle
    /\ IF PatientExists(pid) /\ Unauthorized(pid)
       THEN /\ resp' = [op |-> "delete", pid |-> pid, status |-> 403,
                        error |-> "Unauthorized", reads |-> {<<"patient", pid>>},
                        removed |-> {}]
            /\ UNCHANGED <<patients, checkinDirs, checkins, exports, logLen, now, resolved,
                           disk, inflight>>
       ELSE /\ logLen < MaxLog
            /\ patients' = RemovePatient(pid)
            /\ checkinDirs' = checkinDirs \ {pid}
            /\ checkins' = RemoveTree(pid)
            /\ logLen' = logLen + 1
            /\ resp' = [op |-> "delete", pid |-> pid, status |-> 200, error |-> "",
                        reads |-> IF PatientExists(pid) THEN {<<"patient", pid>>} ELSE {},
                        removed |->
                            (IF PatientExists(pid) THEN {<<"patient", pid>>} ELSE {})
                                \cup {<<"checkin", k[1], k[2]>> :
                                         k \in {c \in DOMAIN checkins : c[1] = pid}}]
            /\ UNCHANGED <<exports, now, resolved, disk, inflight>>

NextPrivacy ==
    \/ \E pid \in PatientIds : \E pdata \in {Profile(pid), << >>} : SaveTherapyPatient(pid, pdata)
    \/ \E pid \in PatientIds, data \in CheckinInputs : SaveTherapyCheckin(pid, data)
    \/ \E pid \in PatientIds : DeletePatientData(pid)
    \/ Return

SpecPrivacy == Init /\ [][NextPrivacy]_vars

\* ------------------------------------------- web_backend.py, save-checkin
\* str(None), the date part of the file name when checkinData has no 'date'.
NoneText == <<"N", "o", "n", "e">>

\* POST /api/therapy/save-checkin of web_backend.py: the same check-in
\* directory, no patient lookup, no required fields, no activity log.
WebSaveTherapyCheckin(pid, data) ==
    /\ Idle
    /\ IF pid = "" \/ data = << >>
       THEN /\ resp' = Reply("save-checkin", pid, 400, "Missing patient ID or check-in data", {})
            /\ UNCHANGED <<patients, checkinDirs, checkins, exports, logLen, now, resolved,
                           disk, inflight>>
       ELSE /\ checkinDirs' = checkinDirs \cup {pid}
            /\ checkins' =
                   (<<pid, IF "date" \in DOMAIN data THEN data.date ELSE NoneText>> :> data)
                       @@ checkins
            /\ resp' = Reply("save-checkin", pid, 200, "", {})
            /\ UNCHANGED <<patients, exports, logLen, now, resolved, disk, inflight>>

NextWeb ==
    \/ \E pid \in PatientIds, data \in CheckinInputs : WebSaveTherapyCheckin(pid, data)
    \/ Return

SpecWeb == Init /\ [][NextWeb]_vars

\* ------------------------------------- save-checkin, requests in parallel
\* app.run serves each request on its own thread and save_therapy_checkin
\* holds no lock: open(filepath, 'w') empties the file, json.dump fills the
\* text buffer, and leaving the with-block writes the buffer at offset 0.
\* A check-in file is far below the buffer size, so the text reaches the
\* file in one write.
Threads == {"T1", "T2"}

ConcurrentInputs ==
    {[date |-> D2024_12_30] @@ BodyA, [date |-> D2024_12_30] @@ BodyB,
     [date |-> D2025_01_01] @@ BodyB}

ConcurrentWeekInputs == {W2025_01}

\* json.dump(checkin_data, f, indent=2): the text of a record, one unit for
\* the part whose length is the same for every check-in (keys, date, time,
\* one-digit values) and one unit per character of the three notes.
Dump(record) ==
    [i \in 1..(1 + Len(record.emotional.notes) + Len(record.medication.notes)
                 + Len(record.activity.notes)) |-> <<record, i>>]

\* write() at offset 0 of a file opened without O_APPEND: the new text
\* replaces the bytes it covers, bytes beyond it stay.
Overlay(old, new) ==
    [i \in 1..(IF Len(old) > Len(new) THEN Len(old) ELSE Len(new)) |->
        IF i <= Len(new) THEN new[i] ELSE old[i]]

\* json.load(f): the record when the file holds exactly one document, else
\* JSONDecodeError (empty file: "Expecting value"; a tail: "Extra data").
Load(content) ==
    IF content # << >> /\ content = Dump(content[1][1])
    THEN <<TRUE, content[1][1]>>
    ELSE <<FALSE, << >> >>

\* save_therapy_checkin up to the metadata lines: a request the handler
\* answers with 400, 404 or 403 returns before it touches the directory.
BeginSaveCheckin(th, pid, data) ==
    /\ th \notin DOMAIN inflight
    /\ pid # "" /\ data # << >>
    /\ PatientExists(pid) /\ ~Unauthorized(pid)
    /\ RequiredFields \subseteq DOMAIN data
    /\ logLen + Cardinality(DOMAIN inflight) < MaxLog
    /\ inflight' = (th :> [pid |-> pid, record |-> StoredRecord(data), pc |-> "open"])
                       @@ inflight
    /\ UNCHANGED <<patients, checkinDirs, checkins, exports, logLen, now, resp, resolved,
                   disk>>

\* os.makedirs(patient_dir, exist_ok=True) and open(filepath, 'w').
OpenCheckinFile(th) ==
    /\ th \in DOMAIN inflight
    /\ inflight[th].pc = "open"
    /\ checkinDirs' = checkinDirs \cup {inflight[th].pid}
    /\ disk' = (<<inflight[th].pid, inflight[th].record.date>> :> << >>) @@ disk
    /\ inflight' = [inflight EXCEPT ![th].pc = "close"]
    /\ UNCHANGED <<patients, checkins, exports, logLen, now, resp, resolved>>

\* The end of the with-block, then log_activity and the 200 response.  When
\* the file was unlinked after it was opened the text goes to a file no
\* directory holds any more.
CloseCheckinFile(th) ==
    /\ th \in DOMAIN inflight
    /\ inflight[th].pc = "close"
    /\ \E key \in {<<inflight[th].pid, inflight[th].record.date>>} :
           disk' = IF key \in DOMAIN disk
                   THEN [disk EXCEPT ![key] = Overlay(disk[key], Dump(inflight[th].record))]
                   ELSE disk
    /\ logLen' = logLen + 1
    /\ inflight' = IF DOMAIN inflight = {th}
                   THEN << >>
                   ELSE [o \in DOMAIN inflight \ {th} |-> inflight[o]]
    /\ UNCHANGED <<patients, checkinDirs, checkins, exports, now, resp, resolved>>

\* get_week_data over the files as they are at the moment of the read.
WeekFilesOnDisk(pid, week_start, readsP) ==
    Only({IF \A ds \in found : Load(disk[<<pid, ds>>])[1]
          THEN [status |-> 200, error |-> "",
                weekData |-> [ds \in found |-> Load(disk[<<pid, ds>>])[2]],
                reads |-> readsP \cup {<<"checkin", pid, ds>> : ds \in found}]
          ELSE [status |-> 500, error |-> "JSONDecodeError", weekData |-> << >>,
                reads |-> readsP \cup {<<"checkin", pid, ds>> : ds \in found}]
          : found \in {{ds \in {Strftime(week_start + i) : i \in 0..6} :
                          <<pid, ds>> \in DOMAIN disk}}})

GetWeekDataOnDisk(pid, week) ==
    LET readsP == IF PatientExists(pid) THEN {<<"patient", pid>>} ELSE {}
    IN
    IF PatientExists(pid) /\ Unauthorized(pid)
    THEN [status |-> 403, error |-> "Unauthorized access", weekData |-> << >>,
          reads |-> readsP]
    ELSE IF pid \notin checkinDirs
    THEN [status |-> 200, error |-> "", weekData |-> << >>, reads |-> readsP]
    ELSE Only({IF r[1]
               THEN WeekFilesOnDisk(pid, r[2], readsP)
               ELSE [status |-> 500, error |-> "ValueError", weekData |-> << >>,
                     reads |-> readsP]
               : r \in {ResolveGWD(week)}})

ReadWeekData(pid, week) ==
    /\ Idle
    /\ resp' = [op |-> "get-week-data", pid |-> pid, week |-> week]
                   @@ GetWeekDataOnDisk(pid, week)
    /\ UNCHANGED <<patients, checkinDirs, checkins, exports, logLen, now, resolved, disk,
                   inflight>>

\* One enrolled patient, no check-in yet.
InitConcurrent ==
    /\ patients = [pid \in {"P1"} |-> EnrolledRecord(pid)]
    /\ checkinDirs = {}
    /\ checkins = << >>
    /\ exports = << >>
    /\ logLen = 0
    /\ now = 0
    /\ resp = [op |-> "none"]
    /\ resolved = << >>
    /\ disk = << >>
    /\ inflight = << >>

NextConcurrent ==
    \/ \E th \in Threads, pid \in PatientIds, data \in ConcurrentInputs :
           BeginSaveCheckin(th, pid, data)
    \/ \E th \in Threads : OpenCheckinFile(th)
    \/ \E th \in Threads : CloseCheckinFile(th)
    \/ \E pid \in PatientIds, week \in ConcurrentWeekInputs : ReadWeekData(pid, week)
    \/ Return

SpecConcurrent == InitConcurrent /\ [][NextConcurrent]_vars

\* ------------------------------------------------ enrollment, repeated
\* A second patientData for the same patient id, as a client sends it when
\* the enrollment form is submitted again.
ProfileRevised(pid) ==
    [patientId |-> pid, name |-> "Renamed " \o pid,
     therapistName |-> "Dr U", therapistEmail |-> "u@clinic"]

ProfileInputs(pid) == {Profile(pid), ProfileRevised(pid), << >>}

EnrollWeekInputs == {W2025_01, WNonNum}

NextEnroll ==
    \/ \E pid \in PatientIds : \E pdata \in ProfileInputs(pid) :
           SaveTherapyPatient(pid, pdata)
    \/ \E pid \in PatientIds, week \in EnrollWeekInputs : \E t \in now..MaxClock :
           GenerateExcelReport(pid, week, t)
    \/ Return

SpecEnroll == Init /\ [][NextEnroll]_vars

\* ------------------------------------------------ ratings of a check-in
\* save_therapy_checkin tests that the rating fields are present, not what
\* they hold: the values a stored check-in may carry.  The scale values
\* straddle the thresholds 3 and 4; the medication values are the four
\* labelled ones and two others.
ScaleValues == {0, 2, 3, 4, 5}
ActivityValues == {2, 3, 4}
MedicationValues == {0, 1, 2, 3, 5, 6}
MedicationNotes == {"", "late"}

RatedCheckins ==
    {[date |-> D2024_12_30, time |-> "09:00", emotional |-> Rating(e, ""),
      medication |-> Rating(m, n), activity |-> Rating(a, "walk")] :
     e \in ScaleValues, m \in MedicationValues, a \in ActivityValues,
     n \in MedicationNotes}

RatingWeekInputs == {W2025_01}

\* P1 enrolled with one check-in stored.
InitRatings ==
    /\ patients = [pid \in {"P1"} |-> EnrolledRecord(pid)]
    /\ checkins \in {[k \in {<<"P1", data.date>>} |-> StoredRecord(data)] :
                      data \in RatedCheckins}
    /\ checkinDirs = {"P1"}
    /\ exports = << >>
    /\ logLen = 0
    /\ now = 0
    /\ resp = [op |-> "none"]
    /\ resolved = << >>
    /\ disk = << >>
    /\ inflight = << >>

NextRatings ==
    \/ \E pid \in PatientIds, week \in RatingWeekInputs : \E t \in now..MaxClock :
           GenerateExcelReport(pid, week, t)
    \/ Return

SpecRatings == InitRatings /\ [][NextRatings]_vars

\* ------------------------------------- the requests that only read the store
\* The mail environments of the email requests made here: nothing
\* configured, SendGrid accepting, both transports failing.
ReadOnlyMailInputs ==
    {Mail("unset", "unset"), Mail("accepted", "unset"), Mail("error", "auth")}

\* Week data, report and email requests over a store left by earlier
\* requests, for the enrolled and for an unknown patient, for a well-formed
\* and for a malformed week.
NextReadOnly ==
    \/ \E pid \in PatientIds, week \in EmailWeekInputs : GetWeekDataRequest(pid, week)
    \/ \E pid \in PatientIds, week \in EmailWeekInputs : \E t \in now..MaxClock :
           GenerateExcelReport(pid, week, t)
    \/ \E pid \in PatientIds, week \in EmailWeekInputs, cfg \in ReadOnlyMailInputs :
           \E t \in now..MaxClock : EmailTherapyReport(pid, week, cfg, t)
    \/ Return

SpecReadOnly == InitRegen /\ [][NextReadOnly]_vars

\* ------------------------------------------- web_backend.py, get_week_data
\* Lines 291-296: the Monday on or before 1 January, then week_num weeks on.
WeekStartWeb(year, week_num) ==
    LET jan1 == ToOrdinal(year, 1, 1)
        days == (7 - Weekday(jan1)) % 7
        days_to_monday == IF days = 0 THEN 7 ELSE days
        first_monday == jan1 + (days_to_monday - 7)
    IN first_monday + 7 * week_num

\* Lines 286-299: <<TRUE, week_start>>, or <<FALSE, 0>> when split, int(),
\* datetime() or the date arithmetic raises.
ResolveWeb(week) ==
    LET p == ParseWeek(week) IN
    IF p[1] /\ p[2] >= 1 /\ p[2] <= 9999
    THEN LET week_start == WeekStartWeb(p[2], p[3]) IN
         IF DateInRange(week_start) /\ DateInRange(week_start + 6)
         THEN <<TRUE, week_start>>
         ELSE <<FALSE, 0>>
    ELSE <<FALSE, 0>>

\* The week resolvers of the two backends, over every week number of every
\* year of Years.
InitWeekWeb ==
    /\ patients = << >>
    /\ checkinDirs = {}
    /\ checkins = << >>
    /\ exports = << >>
    /\ logLen = 0
    /\ now = 0
    /\ resp = [op |-> "none"]
    /\ resolved \in {[year |-> year, week_num |-> week_num,
                      week |-> Pad(year, 4) \o <<"-", "W">> \o Pad(week_num, 2),
                      gwd |-> << >>, web |-> << >>] :
                     year \in Years, week_num \in 1..53}
    /\ disk = << >>
    /\ inflight = << >>

ResolveWeekBackends ==
    /\ resolved # << >>
    /\ resolved.gwd = << >>
    /\ resolved' =
           [resolved EXCEPT
               !.gwd = [i \in 1..7 |-> Strftime(ResolveGWD(resolved.week)[2] + i - 1)],
               !.web = [i \in 1..7 |-> Strftime(ResolveWeb(resolved.week)[2] + i - 1)]]
    /\ UNCHANGED <<patients, checkinDirs, checkins, exports, logLen, now, resp, disk, inflight>>

NextWeekWeb == ResolveWeekBackends

SpecWeekWeb == InitWeekWeb /\ [][NextWeekWeb]_vars

\* ------------------------------- delete-patient beside save-checkin requests
\* delete_patient_data up to os.remove(patient_file): the ownership check
\* and the removal of the patient file.
BeginDeletePatient(th, pid) ==
    /\ th \notin DOMAIN inflight
    /\ ~(PatientExists(pid) /\ Unauthorized(pid))
    /\ logLen + Cardinality(DOMAIN inflight) < MaxLog
    /\ patients' = RemovePatient(pid)
    /\ inflight' = (th :> [pid |-> pid, pc |-> "rmtree"]) @@ inflight
    /\ UNCHANGED <<checkinDirs, checkins, exports, logLen, now, resp, resolved, disk>>

\* shutil.rmtree(checkin_dir) when the directory exists, then log_activity
\* and the 200 response.
FinishDeletePatient(th) ==
    /\ th \in DOMAIN inflight
    /\ inflight[th].pc = "rmtree"
    /\ checkinDirs' = checkinDirs \ {inflight[th].pid}
    /\ disk' = LET kept == {k \in DOMAIN disk : k[1] # inflight[th].pid}
               IN IF kept = {} THEN << >> ELSE [k \in kept |-> disk[k]]
    /\ logLen' = logLen + 1
    /\ inflight' = IF DOMAIN inflight = {th}
                   THEN << >>
                   ELSE [o \in DOMAIN inflight \ {th} |-> inflight[o]]
    /\ UNCHANGED <<patients, checkins, exports, now, resp, resolved>>

NextOrphan ==
    \/ \E th \in Threads, pid \in PatientIds, data \in ConcurrentInputs :
           BeginSaveCheckin(th, pid, data)
    \/ \E th \in Threads : OpenCheckinFile(th)
    \/ \E th \in Threads : CloseCheckinFile(th)
    \/ \E th \in Threads, pid \in PatientIds : BeginDeletePatient(th, pid)
    \/ \E th \in Threads : FinishDeletePatient(th)

SpecOrphan == InitConcurrent /\ [][NextOrphan]_vars

\* ------------------------------------------------ requests of two therapists
\* The registered therapists whose clients issue the requests.
Callers == {"a@clinic", "b@clinic"}

\* mock_auth, the decorator of every therapy and privacy route: whatever
\* credentials the request of the caller carries, request.therapist is the
\* system admin.
MockAuth(caller) == Therapist

SaveTherapyPatientBy(caller, pid, pdata) ==
    MockAuth(caller) = Therapist /\ SaveTherapyPatient(pid, pdata)

SaveTherapyCheckinBy(caller, pid, data) ==
    MockAuth(caller) = Therapist /\ SaveTherapyCheckin(pid, data)

GetWeekDataBy(caller, pid, week) ==
    MockAuth(caller) = Therapist /\ GetWeekDataRequest(pid, week)

DeletePatientDataBy(caller, pid) ==
    MockAuth(caller) = Therapist /\ DeletePatientData(pid)

NextTenants ==
    \/ \E caller \in Callers, pid \in PatientIds :
           SaveTherapyPatientBy(caller, pid, Profile(pid))
    \/ \E caller \in Callers, pid \in PatientIds, data \in ConcurrentInputs :
           SaveTherapyCheckinBy(caller, pid, data)
    \/ \E caller \in Callers, pid \in PatientIds, week \in ConcurrentWeekInputs :
           GetWeekDataBy(caller, pid, week)
    \/ \E caller \in Callers, pid \in PatientIds : DeletePatientDataBy(caller, pid)
    \/ Return

SpecTenants == Init /\ [][NextTenants]_vars

\* ------------------------------------------------ log_activity raising
\* log_activity has no handler of its own: when reading or writing the
\* day's log file raises (an unreadable log, a full disk), the exception
\* reaches the except clause of the route, after the route's own writes.
\* The three routes for an accepted request whose log_activity call raises.
LogError == "log_activity"

SaveTherapyPatientLogRaises(pid, pdata) ==
    /\ Idle
    /\ pid # "" /\ pdata # << >>
    /\ patients' =
           (pid :> ([enrolledBy |-> Therapist.email,
                     therapistOrganization |-> Therapist.organization,
                     weeklyReports |-> << >>] @@ pdata))
               @@ patients
    /\ resp' = Reply("save-patient", pid, 500, LogError, {})
    /\ UNCHANGED <<checkinDirs, checkins, exports, logLen, now, resolved, disk, inflight>>

SaveTherapyCheckinLogRaises(pid, data) ==
    /\ Idle
    /\ pid # "" /\ data # << >>
    /\ PatientExists(pid) /\ ~Unauthorized(pid)
    /\ RequiredFields \subseteq DOMAIN data
    /\ checkinDirs' = checkinDirs \cup {pid}
    /\ checkins' = StoreCheckin(pid, data)
    /\ resp' = Reply("save-checkin", pid, 500, LogError, {<<"patient", pid>>})
    /\ UNCHANGED <<patients, exports, logLen, now, resolved, disk, inflight>>

DeletePatientDataLogRaises(pid) ==
    /\ Idle
    /\ ~(PatientExists(pid) /\ Unauthorized(pid))
    /\ patients' = RemovePatient(pid)
    /\ checkinDirs' = checkinDirs \ {pid}
    /\ checkins' = RemoveTree(pid)
    /\ resp' = [op |-> "delete", pid |-> pid, status |-> 500, error |-> LogError,
                reads |-> IF PatientExists(pid) THEN {<<"patient", pid>>} ELSE {},
                removed |->
                    (IF PatientExists(pid) THEN {<<"patient", pid>>} ELSE {})
                        \cup {<<"checkin", k[1], k[2]>> :
                                 k \in {c \in DOMAIN checkins : c[1] = pid}}]
    /\ UNCHANGED <<exports, logLen, now, resolved, disk, inflight>>

NextLogging ==
    \/ \E pid \in PatientIds : \E pdata \in {Profile(pid), << >>} :
           \/ SaveTherapyPatient(pid, pdata)
           \/ SaveTherapyPatientLogRaises(pid, pdata)
    \/ \E pid \in PatientIds, data \in CheckinInputs :
           \/ SaveTherapyCheckin(pid, data)
           \/ SaveTherapyCheckinLogRaises(pid, data)
    \/ \E pid \in PatientIds :
           \/ DeletePatientData(pid)
           \/ DeletePatientDataLogRaises(pid)
    \/ Return

SpecLogging == Init /\ [][NextLogging]_vars

\* ------------------------ email-report beside other report generations
\* max(excel_files, key=os.path.getctime) over the files whose name starts
\* with therapy_report_{patient_id}_{week}_ (lines 861-876): the names of
\* one prefix differ in the timestamp only, and the file written later
\* carries the later one.
NewestExport(pid, week) ==
    CHOOSE f \in DOMAIN exports :
        /\ f.pid = pid /\ f.week = week
        /\ \A g \in DOMAIN exports :
               (g.pid = pid /\ g.week = week) => g.timestamp <= f.timestamp

\* email_therapy_report up to the return of generate_excel_report (line
\* 833) for a request whose report is produced: the export is saved and
\* 'report_generated' logged.
BeginEmailReport(th, pid, week, t) ==
    /\ th \notin DOMAIN inflight
    /\ \E r \in {GenerateReport(pid, week, t)} :
           /\ r.status = 200
           /\ logLen + Cardinality(DOMAIN inflight) < MaxLog
           /\ exports' = (r.filename :> r.workbook) @@ exports
           /\ logLen' = logLen + 1
           /\ now' = t
           /\ inflight' = (th :> [pid |-> pid, week |-> week, report |-> r, pc |-> "scan"])
                              @@ inflight
    /\ UNCHANGED <<patients, checkinDirs, checkins, resp, resolved, disk>>

\* Lines 837-1022: the week data read again, the export looked up in the
\* directory, the dispatch and the response.
FinishEmailReport(th, cfg) ==
    /\ Idle
    /\ th \in DOMAIN inflight
    /\ inflight[th].pc = "scan"
    /\ \E r \in {EmailOfReport(inflight[th].pid, inflight[th].week, inflight[th].report, cfg)} :
           /\ logLen + (IF r.sent THEN 1 ELSE 0) <= MaxLog
           /\ logLen' = logLen + (IF r.sent THEN 1 ELSE 0)
           /\ resp' = [op |-> "email", pid |-> inflight[th].pid, week |-> inflight[th].week]
                          @@ [r EXCEPT !.attachment =
                                  IF r.sent THEN NoFile
                                  ELSE NewestExport(inflight[th].pid, inflight[th].week)]
    /\ inflight' = IF DOMAIN inflight = {th}
                   THEN << >>
                   ELSE [o \in DOMAIN inflight \ {th} |-> inflight[o]]
    /\ UNCHANGED <<patients, checkinDirs, checkins, exports, now, resolved, disk>>

NextAttachment ==
    \/ \E th \in Threads, pid \in PatientIds, week \in ConcurrentWeekInputs :
           \E t \in now..MaxClock : BeginEmailReport(th, pid, week, t)
    \/ \E th \in Threads, cfg \in ReadOnlyMailInputs : FinishEmailReport(th, cfg)
    \/ \E pid \in PatientIds, week \in ConcurrentWeekInputs : \E t \in now..MaxClock :
           GenerateExcelReport(pid, week, t)
    \/ Return

SpecAttachment == InitConcurrent /\ [][NextAttachment]_vars

\* ------------------------------------------------- what the document says
\* The calendar, stated without day numbers: the weekday of a date by the
\* month-offset rule (0 is Sunday) and the date k days after a date, month
\* by month.
MonthOffset == <<0, 3, 2, 5, 0, 3, 5, 1, 4, 6, 2, 4>>

DayOfWeek(ymd) ==
    LET y == IF ymd[2] < 3 THEN ymd[1] - 1 ELSE ymd[1]
    IN (y + y \div 4 - y \div 100 + y \div 400 + MonthOffset[ymd[2]] + ymd[3]) % 7

DayName(ymd) ==
    <<"Sunday", "Monday", "Tuesday", "Wednesday", "Thursday", "Friday",
      "Saturday">>[DayOfWeek(ymd) + 1]

RECURSIVE AddDays(_, _)
AddDays(ymd, k) ==
    IF ymd[3] + k <= DaysInMonth(ymd[1], ymd[2])
    THEN <<ymd[1], ymd[2], ymd[3] + k>>
    ELSE AddDays(IF ymd[2] = 12 THEN <<ymd[1] + 1, 1, 1>>
                 ELSE <<ymd[1], ymd[2] + 1, 1>>,
                 k - (DaysInMonth(ymd[1], ymd[2]) - ymd[3] + 1))

DateText(ymd) == Pad(ymd[1], 4) \o <<"-">> \o Pad(ymd[2], 2) \o <<"-">> \o Pad(ymd[3], 2)

\* The Monday of the week that contains January 4 of the year: the Monday
\* among December 29 .. January 4.
FirstMonday(year) ==
    CHOOSE ymd \in {<<year - 1, 12, 29>>, <<year - 1, 12, 30>>, <<year - 1, 12, 31>>,
                    <<year, 1, 1>>, <<year, 1, 2>>, <<year, 1, 3>>, <<year, 1, 4>>} :
        DayName(ymd) = "Monday"

\* The 7 dates of week w of the year, Monday first.
DatesOfWeek(year, w) ==
    LET monday == AddDays(FirstMonday(year), 7 * (w - 1))
    IN [i \in 1..7 |-> AddDays(monday, i - 1)]

\* "YYYY-Www" with decimal digits; its year and its week number.
WellFormed(week) ==
    /\ Len(week) = 8
    /\ week[5] = "-" /\ week[6] = "W"
    /\ \A i \in {1, 2, 3, 4, 7, 8} : IsDigit(week[i])

YearOf(week) == DigitsVal(SubSeq(week, 1, 4))

WeekNumOf(week) == DigitsVal(SubSeq(week, 7, 8))

InRange(week) == WeekNumOf(week) >= 1 /\ WeekNumOf(week) <= 53

\* The dates of the week a well-formed identifier names, as text.
DateTexts(week) ==
    LET dates == DatesOfWeek(YearOf(week), WeekNumOf(week))
    IN [i \in 1..7 |-> DateText(dates[i])]

\* A report was produced and is being returned.
Reported == resp.op = "report" /\ resp.status = 200

\* ------------------------------------------------------------------ C1
\* C1: the check-in store holds one record per (patient, date); a successful
\* save-checkin makes the record of its (patient, date) equal to the
\* submitted check-in, field by field, and leaves every other record as it
\* was; nothing but a successful save-checkin changes the store; and the
\* week data and the report rows returned for a date are those of the record
\* stored for it.
C1_LatestCheckinWins ==
    /\ [][\A pid \in PatientIds, data \in CheckinInputs :
            (SaveTherapyCheckin(pid, data) /\ resp'.status = 200) =>
                /\ DOMAIN checkins' = DOMAIN checkins \cup {<<pid, data.date>>}
                /\ \A f \in DOMAIN data : checkins'[<<pid, data.date>>][f] = data[f]
                /\ DOMAIN checkins'[<<pid, data.date>>] \ {"recordedBy"} = DOMAIN data
                /\ \A k \in DOMAIN checkins \ {<<pid, data.date>>} :
                       checkins'[k] = checkins[k]]_vars
    /\ [][checkins' # checkins => resp'.op = "save-checkin" /\ resp'.status = 200]_vars
    /\ [](resp.op = "get-week-data" /\ resp.status = 200 =>
              \A ds \in DOMAIN resp.weekData :
                  /\ CheckinExists(resp.pid, ds)
                  /\ resp.weekData[ds] = checkins[<<resp.pid, ds>>])
    /\ [](Reported =>
              \A r \in 1..7 :
                  LET row == resp.workbook.daily[r] IN
                  row.status = "Completed" =>
                      /\ CheckinExists(resp.pid, row.date)
                      /\ row.time = checkins[<<resp.pid, row.date>>].time
                      /\ row.emotional = Num(checkins[<<resp.pid, row.date>>].emotional.value)
                      /\ row.activity = Num(checkins[<<resp.pid, row.date>>].activity.value)
                      /\ row.emotionalNotes = checkins[<<resp.pid, row.date>>].emotional.notes)

\* A report saved earlier shows rating 5 for 2024-12-30 and the week data
\* now returned for the same patient shows rating 2 for that date: the
\* check-in of the date was submitted again in between.
C1_Witness ==
    /\ resp.op = "get-week-data"
    /\ resp.status = 200
    /\ D2024_12_30 \in DOMAIN resp.weekData
    /\ resp.weekData[D2024_12_30] = [recordedBy |-> Therapist.email, date |-> D2024_12_30] @@ BodyB
    /\ \E f \in DOMAIN exports :
           /\ f.pid = resp.pid
           /\ exports[f].daily[1].date = D2024_12_30
           /\ exports[f].daily[1].emotional = Num(5)

\* ------------------------------------------------------------------ C2
RECURSIVE SumNonzeroMedication(_, _)
SumNonzeroMedication(pid, dates) ==
    IF dates = {} THEN 0
    ELSE LET ds == CHOOSE x \in dates : TRUE
         IN checkins[<<pid, ds>>].medication.value
                + SumNonzeroMedication(pid, dates \ {ds})

\* C2: the "Avg Medication Adherence" of the summary sheet is the mean of
\* the nonzero medication values of the week's check-ins (zero entries are
\* left out of numerator and denominator), 0 when there is no nonzero one.
C2_MedicationAverageSkipsZeros ==
    (Reported /\ resp.workbook.stats.completed_days > 0) =>
        \A present \in {{resp.workbook.daily[r].date : r \in 1..7}
                            \cap {k[2] : k \in {c \in DOMAIN checkins : c[1] = resp.pid}}} :
        \A nonzero \in {{ds \in present :
                            checkins[<<resp.pid, ds>>].medication.value > 0}} :
            resp.workbook.stats.avgMedication =
                (IF nonzero = {} THEN "0.00"
                 ELSE FmtFixed(SumNonzeroMedication(resp.pid, nonzero),
                               Cardinality(nonzero), 2)) \o "/5"

\* ------------------------------------------------------------------ C3
\* 100 * n / 7 to one decimal place, n = 0 .. 7.
PercentOfSeven == <<"0.0", "14.3", "28.6", "42.9", "57.1", "71.4", "85.7", "100.0">>

\* C3: in every report produced, completedDays is the number of the week's
\* 7 dates for which the patient has a stored check-in, it lies in 0 .. 7,
\* and the completion shown is completedDays out of 7 with the percentage
\* 100 * completedDays / 7.
C3_CompletedDays ==
    (Reported /\ WellFormed(resp.week)) =>
        \A dates \in {DateTexts(resp.week)} :
        \A n \in {Cardinality({i \in 1..7 : CheckinExists(resp.pid, dates[i])})} :
            /\ resp.workbook.stats.completed_days = n
            /\ n \in 0..7
            /\ resp.workbook.stats.completion =
                   ToString(n) \o "/7 (" \o PercentOfSeven[n + 1] \o "%)"

\* A report counts 1 completed day for a patient who has two check-ins
\* stored, one of them outside the week.
C3_Witness ==
    /\ Reported
    /\ resp.workbook.stats.completed_days = 1
    /\ resp.workbook.stats.completion = "1/7 (14.3%)"
    /\ Cardinality({k \in DOMAIN checkins : k[1] = resp.pid}) = 2

\* ------------------------------------------------------------------ C4
\* C4: for every year and every week number w in 1 .. 53 the identifier
\* resolves to 7 consecutive calendar dates of which the first is a Monday,
\* namely the Monday of the week containing January 4 of the year plus
\* 7 * (w - 1) days, and get_week_data and generate_excel_report resolve it
\* to the same dates.
C4_WeekResolution ==
    (resolved # << >> /\ resolved.gwd # << >>) =>
        \A dates \in {DatesOfWeek(resolved.year, resolved.week_num)} :
            /\ Len(resolved.gwd) = 7
            /\ resolved.gwd = resolved.ger
            /\ \A i \in 1..7 : resolved.gwd[i] = DateText(dates[i])
            /\ DayName(dates[1]) = "Monday"
            /\ dates[1] = AddDays(FirstMonday(resolved.year), 7 * (resolved.week_num - 1))
            /\ \A i \in 1..6 : dates[i + 1] = AddDays(dates[i], 1)

\* Week 53 of 2020 has been resolved: it runs from Monday 2020-12-28 into
\* January 2021.
C4_Witness ==
    /\ resolved # << >>
    /\ resolved.year = 2020 /\ resolved.week_num = 53
    /\ resolved.gwd # << >>
    /\ resolved.gwd[1] = <<"2", "0", "2", "0", "-", "1", "2", "-", "2", "8">>
    /\ resolved.ger[7] = <<"2", "0", "2", "1", "-", "0", "1", "-", "0", "3">>

\* ------------------------------------------------------------------ C5
\* A week identifier with the wrong separator or a non-numeric part.
Malformed(week) == ~WellFormed(week)

\* C5: a request with a malformed week identifier fails before any storage
\* access: it is answered with an error, no patient record and no check-in
\* has been read, and no export has been written.
C5_MalformedWeekBeforeStorage ==
    (resp.op \in {"get-week-data", "report"} /\ Malformed(resp.week)) =>
        /\ resp.status # 200
        /\ resp.reads = {}
        /\ resp.op = "report" => resp.filename = NoFile

\* ------------------------------------------------------------------ C6
\* C6: every request that takes a week identifier answers a wrong separator
\* or a non-numeric part with an error and returns no week data and no
\* export, whatever is stored for the patient.
C6_MalformedWeekIsAnError ==
    (resp.op \in {"get-week-data", "report"} /\ Malformed(resp.week)) =>
        /\ resp.status >= 400
        /\ resp.error # ""
        /\ resp.op = "get-week-data" => resp.weekData = << >>
        /\ resp.op = "report" => resp.filename = NoFile /\ resp.workbook = << >>

\* ------------------------------------------------------------------ C7
\* C7: a well-formed identifier whose week number lies outside 1 .. 53 is
\* rejected by get-week-data and by the report; it is never resolved to
\* dates.
C7_WeekNumberOutOfRange ==
    (resp.op \in {"get-week-data", "report"} /\ WellFormed(resp.week)
         /\ ~InRange(resp.week)) =>
        /\ resp.status # 200
        /\ resp.op = "get-week-data" => resp.weekData = << >>
        /\ resp.op = "report" => resp.workbook = << >>

\* ------------------------------------------------------------------ C8
\* The row of the daily sheet for a date without a check-in, fills aside.
EmptyRow(row) ==
    /\ row.status = "No Response"
    /\ row.time = "-"
    /\ row.emotional = Txt("-") /\ row.emotionalNotes = "-"
    /\ row.medication = "-" /\ row.medicationNotes = "-"
    /\ row.activity = Txt("-") /\ row.activityNotes = "-"

\* C8: a report requested for an enrolled patient and a valid week in which
\* the patient has no stored check-in (no check-in ever stored included) is
\* produced, with completedDays 0, the three averages "N/A", 7 daily rows
\* "No Response" with "-" in every value and note column and an empty notes
\* sheet; and no report shows "N/A" for an average unless completedDays is 0.
C8_EmptyWeekReport ==
    /\ (resp.op = "report" /\ PatientExists(resp.pid) /\ WellFormed(resp.week)
            /\ InRange(resp.week)
            /\ \A i \in 1..7 : ~CheckinExists(resp.pid, DateTexts(resp.week)[i])) =>
           /\ resp.status = 200
           /\ resp.filename \in DOMAIN exports
           /\ exports[resp.filename] = resp.workbook
           /\ resp.workbook.stats.completed_days = 0
           /\ resp.workbook.stats.avgEmotional = "N/A"
           /\ resp.workbook.stats.avgMedication = "N/A"
           /\ resp.workbook.stats.avgActivity = "N/A"
           /\ Len(resp.workbook.daily) = 7
           /\ \A r \in 1..7 : EmptyRow(resp.workbook.daily[r])
           /\ resp.workbook.notes = << >>
    /\ (Reported /\ "N/A" \in {resp.workbook.stats.avgEmotional,
                               resp.workbook.stats.avgMedication,
                               resp.workbook.stats.avgActivity}) =>
           /\ resp.workbook.stats.completed_days = 0
           /\ \A r \in 1..7 : ~CheckinExists(resp.pid, resp.workbook.daily[r].date)

\* A report of an empty week for a patient whose check-ins are all on
\* dates outside the week.
C8_Witness ==
    /\ Reported
    /\ resp.week = W2024_05
    /\ resp.pid \in checkinDirs
    /\ \E k \in DOMAIN checkins : k[1] = resp.pid
    /\ resp.workbook.stats.completed_days = 0
    /\ resp.workbook.stats.avgMedication = "N/A"
    /\ resp.workbook.daily[7].status = "No Response"
    /\ resp.workbook.notes = << >>

\* ------------------------------------------------------------------ C9
\* C9: the daily sheet of every report has one row per date of the week,
\* Monday to Sunday, each labelled with the weekday of its date; a row says
\* "Completed" exactly when a check-in is stored for its date and otherwise
\* "No Response" with "-" in every value and note column; the number of
\* "Completed" rows is completedDays.
C9_DailySheet ==
    (Reported /\ WellFormed(resp.week)) =>
        \A dates \in {DatesOfWeek(YearOf(resp.week), WeekNumOf(resp.week))} :
            /\ DOMAIN resp.workbook.daily = 1..7
            /\ \A r \in 1..7 :
                   LET row == resp.workbook.daily[r] IN
                   /\ row.date = DateText(dates[r])
                   /\ row.day = DayName(dates[r])
                   /\ row.day = <<"Monday", "Tuesday", "Wednesday", "Thursday",
                                  "Friday", "Saturday", "Sunday">>[r]
                   /\ row.status \in {"Completed", "No Response"}
                   /\ row.status = "Completed" <=> CheckinExists(resp.pid, row.date)
                   /\ row.status = "No Response" => EmptyRow(row)
            /\ Cardinality({r \in 1..7 : resp.workbook.daily[r].status = "Completed"})
                   = resp.workbook.stats.completed_days

\* A report whose Monday and Wednesday rows are completed and whose other
\* five rows are not.
C9_Witness ==
    /\ Reported
    /\ resp.week = W2025_01
    /\ {r \in 1..7 : resp.workbook.daily[r].status = "Completed"} = {1, 3}
    /\ resp.workbook.daily[3].day = "Wednesday"
    /\ resp.workbook.daily[2].status = "No Response"

\* ----------------------------------------------------------------- C10
\* Date a before date b in the calendar.
Earlier(a, b) ==
    \/ a[1] < b[1]
    \/ a[1] = b[1] /\ a[2] < b[2]
    \/ a[1] = b[1] /\ a[2] = b[2] /\ a[3] < b[3]

NoteCategories == <<"Emotional", "Medication", "Physical Activity">>

NoteOf(record, category) ==
    CASE category = "Emotional" -> record.emotional.notes
      [] category = "Medication" -> record.medication.notes
      [] category = "Physical Activity" -> record.activity.notes

\* C10: the notes sheet of every report holds exactly one row per (date,
\* category) of the week whose stored note is non-empty, with that note, and
\* its rows are ordered by date and, within a date, Emotional, Medication,
\* Physical Activity.
C10_NotesSheet ==
    (Reported /\ WellFormed(resp.week)) =>
        \A dates \in {DatesOfWeek(YearOf(resp.week), WeekNumOf(resp.week))} :
        \A notes \in {resp.workbook.notes} :
        \A wanted \in {{<<d, c>> \in (1..7) \X (1..3) :
                          /\ CheckinExists(resp.pid, DateText(dates[d]))
                          /\ NoteOf(checkins[<<resp.pid, DateText(dates[d])>>],
                                    NoteCategories[c]) # ""}} :
            /\ Len(notes) = Cardinality(wanted)
            /\ \A dc \in wanted :
                   \E i \in 1..Len(notes) :
                       /\ notes[i].date = DateText(dates[dc[1]])
                       /\ notes[i].category = NoteCategories[dc[2]]
                       /\ notes[i].notes =
                              NoteOf(checkins[<<resp.pid, notes[i].date>>],
                                     notes[i].category)
            /\ \A i, j \in 1..Len(notes) :
                   i < j =>
                       \E di, dj \in 1..7, ci, cj \in 1..3 :
                           /\ notes[i].date = DateText(dates[di])
                           /\ notes[j].date = DateText(dates[dj])
                           /\ notes[i].category = NoteCategories[ci]
                           /\ notes[j].category = NoteCategories[cj]
                           /\ \/ Earlier(dates[di], dates[dj])
                              \/ di = dj /\ ci < cj

\* A notes sheet with the note of 2024-12-30 above the note of 2025-01-01,
\* one row each: both check-ins carry an emotional note only.
C10_Witness ==
    /\ Reported
    /\ Len(resp.workbook.notes) = 2
    /\ resp.workbook.notes[1].date = D2024_12_30
    /\ resp.workbook.notes[2].date = D2025_01_01
    /\ resp.workbook.notes[1].category = "Emotional"
    /\ resp.workbook.notes[1].notes = "low"

\* ----------------------------------------------------------------- C11
\* C11: a save-checkin request whose check-in lacks one of date, time,
\* emotional, medication, activity is answered 400 and leaves the check-in
\* store as it was (here: by the save-checkin of web_backend.py).
C11_MissingFieldRejected ==
    [][\A pid \in PatientIds, data \in CheckinInputs :
           (WebSaveTherapyCheckin(pid, data) /\ ~(RequiredFields \subseteq DOMAIN data)) =>
               /\ resp'.status = 400
               /\ checkins' = checkins]_vars

\* ----------------------------------------------------------------- C12
\* C12: a check-in submission, week-data request or report generation that
\* names a patient id without a stored patient record is answered with a
\* not-found failure (a submission that is itself incomplete may be answered
\* 400), never with success, and returns no week data and no export.
C12_UnknownPatientNotFound ==
    (resp.op \in {"save-checkin", "get-week-data", "report"}
         /\ ~PatientExists(resp.pid)) =>
        /\ resp.status # 200
        /\ resp.status \in (IF resp.op = "save-checkin" THEN {400, 404} ELSE {404})
        /\ resp.op = "get-week-data" => resp.weekData = << >>
        /\ resp.op = "report" => resp.filename = NoFile

\* ----------------------------------------------------------------- C13
\* C13: a successful delete-patient for p leaves no patient record and no
\* check-in of p, whatever was stored before, and leaves the records of
\* every other patient as they were; check-ins are stored for enrolled
\* patients only, so an id enrolled again after its deletion starts with no
\* check-ins.
C13_DeleteRemovesAll ==
    /\ [][\A pid \in PatientIds :
            (DeletePatientData(pid) /\ resp'.status = 200) =>
                /\ pid \notin DOMAIN patients'
                /\ pid \notin checkinDirs'
                /\ \A k \in DOMAIN checkins' : k[1] # pid
                /\ \A o \in DOMAIN patients \ {pid} :
                       o \in DOMAIN patients' /\ patients'[o] = patients[o]
                /\ \A k \in DOMAIN checkins :
                       k[1] # pid => k \in DOMAIN checkins' /\ checkins'[k] = checkins[k]
                /\ checkinDirs' \ {pid} = checkinDirs \ {pid}]_vars
    /\ [][\A pid \in PatientIds :
            (SaveTherapyPatient(pid, Profile(pid)) /\ resp'.status = 200
                 /\ pid \notin DOMAIN patients) =>
                \A k \in DOMAIN checkins' : k[1] # pid]_vars
    /\ [](\A k \in DOMAIN checkins : k[1] \in DOMAIN patients)

\* A deletion that removed the patient record and a check-in of the patient
\* while another patient is enrolled.
C13_Witness ==
    /\ resp.op = "delete"
    /\ resp.status = 200
    /\ <<"patient", resp.pid>> \in resp.removed
    /\ <<"checkin", resp.pid, D2024_12_30>> \in resp.removed
    /\ DOMAIN patients # {}
    /\ resp.pid \notin DOMAIN patients

\* ----------------------------------------------------------------- C14
\* An email request is being answered.
Emailed == resp.op = "email"

\* C14: an email-report request for an enrolled patient and a valid week,
\* made with no SendGrid key and no SMTP configuration, is answered without
\* error with the composed body and the name of the attached export, marked
\* as not sent, and no send attempt is made.
C14_NoCollaboratorPreview ==
    (Emailed /\ PatientExists(resp.pid) /\ WellFormed(resp.week) /\ InRange(resp.week)
         /\ resp.mail = Mail("unset", "unset")) =>
        /\ resp.status = 200
        /\ resp.error = ""
        /\ ~resp.sent
        /\ resp.message # "Email sent successfully"
        /\ resp.note = "Email not sent - system email not configured. Contact administrator."
        /\ resp.attempts = << >>
        /\ resp.content # << >>
        /\ resp.content.patientId = resp.pid
        /\ resp.content.week = resp.week
        /\ resp.content.name = patients[resp.pid].name
        /\ resp.attachment \in DOMAIN exports
        /\ resp.attachment.pid = resp.pid /\ resp.attachment.week = resp.week

\* A preview returned with no transport configured, for a week with a
\* stored check-in.
C14_Witness ==
    /\ Emailed
    /\ resp.mail = Mail("unset", "unset")
    /\ resp.status = 200
    /\ ~resp.sent
    /\ resp.attempts = << >>
    /\ resp.content # << >>
    /\ resp.content.summary.completed_days = 1
    /\ resp.attachment \in DOMAIN exports

\* ----------------------------------------------------------------- C15
\* The outcomes of a send attempt that are a transport-level error.
TransportErrors == {"error", "auth", "smtp", "general"}

\* C15: when a send attempt of an email-report request raises a
\* transport-level error the request is answered without failure with the
\* preview (composed body and attachment name) and the error text, without a
\* 'sent' confirmation, and the export generated for it exists.
C15_TransportErrorPreview ==
    (Emailed /\ \E i \in 1..Len(resp.attempts) : resp.attempts[i].outcome \in TransportErrors) =>
        /\ resp.status = 200
        /\ ~resp.sent
        /\ resp.message # "Email sent successfully"
        /\ resp.error # ""
        /\ resp.content # << >>
        /\ resp.attachment \in DOMAIN exports
        /\ resp.filename \in DOMAIN exports

\* ----------------------------------------------------------------- C16
\* C16: within one email-report request at most one send attempt is made;
\* no attempt follows an attempt that failed, on either transport.
C16_FireOnce ==
    Emailed =>
        /\ Len(resp.attempts) <= 1
        /\ \A i \in 1..Len(resp.attempts) :
               resp.attempts[i].outcome \notin {"accepted", "sent"} => i = Len(resp.attempts)

\* ----------------------------------------------------------------- C17
\* A workbook without its "Report Generated" cell.
Contents(workbook) ==
    [info |-> [f \in DOMAIN workbook.info \ {"generated"} |-> workbook.info[f]],
     stats |-> workbook.stats, daily |-> workbook.daily, notes |-> workbook.notes]

C18_FilenamesNeverCollide ==
    [][(resp.op = "none" /\ resp'.op = "report" /\ resp'.status = 200) =>
           resp'.filename \notin DOMAIN exports]_vars

\* ----------------------------------------------------------------- C19
\* C19: when submissions for the same patient and date run in parallel, the
\* file left behind once no submission for it is in progress holds exactly
\* one of the submitted check-ins, whole; and a get-week-data request that
\* runs meanwhile succeeds and returns, per date, one whole submitted
\* check-in.
Submitted(pid, ds) ==
    {StoredRecord(data) : data \in {d \in ConcurrentInputs : d.date = ds}}

C19_ConcurrentSubmissionsAtomic ==
    /\ \A key \in DOMAIN disk :
           (\A th \in DOMAIN inflight :
                <<inflight[th].pid, inflight[th].record.date>> # key)
               => \E record \in Submitted(key[1], key[2]) : disk[key] = Dump(record)
    /\ resp.op = "get-week-data"
           => /\ resp.status = 200
              /\ \A ds \in DOMAIN resp.weekData :
                     resp.weekData[ds] \in Submitted(resp.pid, ds)

\* ----------------------------------------------------------------- C20
\* C20: for a valid week get-week-data answers with success and a mapping
\* whose keys are exactly those of the week's 7 dates for which a check-in
\* of the patient is stored, each mapped to the stored record; dates without
\* a check-in are absent and no other date appears.
C20_WeekDataMapping ==
    (resp.op = "get-week-data" /\ WellFormed(resp.week) /\ InRange(resp.week)) =>
        \A dates \in {DateTexts(resp.week)} :
            /\ resp.status = 200
            /\ resp.error = ""
            /\ DOMAIN resp.weekData =
                   {dates[i] : i \in {j \in 1..7 : CheckinExists(resp.pid, dates[j])}}
            /\ \A ds \in DOMAIN resp.weekData :
                   resp.weekData[ds] = checkins[<<resp.pid, ds>>]

\* Week data with the check-ins of Monday and Wednesday for a patient who
\* also has a check-in in another week.
C20_Witness ==
    /\ resp.op = "get-week-data"
    /\ resp.week = W2025_01
    /\ resp.status = 200
    /\ DOMAIN resp.weekData = {D2024_12_30, D2025_01_01}
    /\ CheckinExists(resp.pid, D2024_01_29)

\* ----------------------------------------------------------------- C21
\* C21: a step of enrollment or report generation leaves every existing
\* patient record in place with its identity and enrollment fields as they
\* were, and its report history is the old history, possibly extended at
\* the end.
IsPrefix(s, t) == Len(s) <= Len(t) /\ \A i \in 1..Len(s) : s[i] = t[i]

C21_PatientRecordOnlyGrows ==
    [][\A pid \in DOMAIN patients :
          /\ pid \in DOMAIN patients'
          /\ \A field \in DOMAIN patients[pid] \ {"weeklyReports"} :
                 /\ field \in DOMAIN patients'[pid]
                 /\ patients'[pid][field] = patients[pid][field]
          /\ IsPrefix(patients[pid].weeklyReports, patients'[pid].weeklyReports)]_vars

\* ----------------------------------------------------------------- C22
\* C22: in a generated report the medication cell of a completed daily row
\* and the rating cell of a medication row of the notes table both hold
\* "Not Applicable" for 0, "No Doses" for 1, "Partial Doses" for 3,
\* "Yes, All Doses" for 5 and the decimal numeral of any other value.
DigitText == <<"0", "1", "2", "3", "4", "5", "6", "7", "8", "9">>

RECURSIVE Numeral(_)
Numeral(n) ==
    IF n < 0 THEN "-" \o Numeral(0 - n)
    ELSE IF n < 10 THEN DigitText[n + 1]
    ELSE Numeral(n \div 10) \o DigitText[(n % 10) + 1]

MedicationLabel(v) ==
    IF v = 0 THEN "Not Applicable"
    ELSE IF v = 1 THEN "No Doses"
    ELSE IF v = 3 THEN "Partial Doses"
    ELSE IF v = 5 THEN "Yes, All Doses"
    ELSE Numeral(v)

C22_MedicationLabels ==
    Reported =>
        /\ \A r \in 1..7 :
               LET row == resp.workbook.daily[r] IN
               row.status = "Completed"
                   => row.medication
                          = MedicationLabel(checkins[<<resp.pid, row.date>>].medication.value)
        /\ \A i \in DOMAIN resp.workbook.notes :
               LET row == resp.workbook.notes[i] IN
               row.category = "Medication"
                   => row.rating
                          = Txt(MedicationLabel(checkins[<<resp.pid, row.date>>].medication.value))

C22_Witness ==
    /\ Reported
    /\ \E r \in 1..7 : \E i \in DOMAIN resp.workbook.notes :
           /\ resp.workbook.daily[r].status = "Completed"
           /\ resp.workbook.daily[r].medication = "2"
           /\ resp.workbook.notes[i].category = "Medication"
           /\ resp.workbook.notes[i].date = resp.workbook.daily[r].date
           /\ resp.workbook.notes[i].rating = Txt("2")

\* ----------------------------------------------------------------- C23
\* C23: in every completed daily row of a generated report the emotional
\* cell and the activity cell are each favourable (green) for a value of 4
\* or more, neutral (yellow) for 3 and unfavourable (red) below 3, each by
\* its own value, and the medication cell has no band for 0 and is
\* unfavourable for 1, neutral for 3 and favourable for 5.
Band(value) ==
    IF value >= 4 THEN Green ELSE IF value = 3 THEN Yellow ELSE Red

C23_Banding ==
    Reported =>
        \A r \in 1..7 :
            LET row == resp.workbook.daily[r] IN
            row.status = "Completed" =>
                LET data == checkins[<<resp.pid, row.date>>] IN
                /\ row.emotionalFill = Band(data.emotional.value)
                /\ row.activityFill = Band(data.activity.value)
                /\ data.medication.value = 0 => row.medicationFill = NoFill
                /\ data.medication.value = 1 => row.medicationFill = Red
                /\ data.medication.value = 3 => row.medicationFill = Yellow
                /\ data.medication.value = 5 => row.medicationFill = Green

\* A row whose three cells carry three different bands.
C23_Witness ==
    /\ Reported
    /\ \E r \in 1..7 :
           /\ resp.workbook.daily[r].status = "Completed"
           /\ resp.workbook.daily[r].emotional = Num(4)
           /\ resp.workbook.daily[r].emotionalFill = Green
           /\ resp.workbook.daily[r].activity = Num(2)
           /\ resp.workbook.daily[r].activityFill = Red
           /\ resp.workbook.daily[r].medication = "Partial Doses"
           /\ resp.workbook.daily[r].medicationFill = Yellow

\* ----------------------------------------------------------------- C24
\* C24: a get-week-data, generate-excel-report or email-report request,
\* whether it is answered with success or with an error, leaves every
\* patient record, every check-in record and the set of check-in
\* directories exactly as they were.
C24_ReadersLeaveStore ==
    [][resp'.op \in {"get-week-data", "report", "email"}
          => /\ patients' = patients
             /\ checkins' = checkins
             /\ checkinDirs' = checkinDirs]_vars

\* An email request has succeeded and left its export, and a report request
\* is being refused, over a store that holds check-ins.
C24_Witness ==
    /\ DOMAIN checkins # {}
    /\ resp.op = "report" /\ resp.status # 200
    /\ \E f \in DOMAIN exports : f.pid = "P1"
    /\ logLen >= 2

\* ----------------------------------------------------------------- C25
\* C25: for every year and every week number from 1 to 53, get_week_data of
\* web_backend.py and get_week_data of enhanced_therapy_backend.py look up
\* the same 7 dates.
C25_BackendsResolveSameDates ==
    (resolved # << >> /\ resolved.gwd # << >>) =>
        /\ Len(resolved.web) = 7
        /\ resolved.web = resolved.gwd

\* ----------------------------------------------------------------- C26
\* C26: when an email-report request returns the composed body together
\* with the report it generated, and the week has a completed day, the
\* completion count and the emotional, medication and activity averages of
\* the body are those of the report's statistics (the body's medication
\* line may carry its "(excluding N/A)" remark).
C26_BodyMatchesSpreadsheet ==
    (Emailed /\ resp.status = 200 /\ ~resp.sent
         /\ resp.workbook.stats.completed_days > 0) =>
        LET body == resp.content.summary
            sheet == resp.workbook.stats
        IN /\ body.completed_days = sheet.completed_days
           /\ body.avgEmotional = sheet.avgEmotional
           /\ body.avgMedication \in {sheet.avgMedication \o " (excluding N/A)",
                                      sheet.avgMedication \o " "}
           /\ body.avgActivity = sheet.avgActivity

\* ----------------------------------------------------------------- C27
\* C27: whenever no request is in progress, every check-in file on disk is
\* the check-in of a patient whose record exists.
C27_CheckinsHavePatient ==
    inflight = << >> => \A key \in DOMAIN disk : key[1] \in DOMAIN patients

\* ----------------------------------------------------------------- C28
\* C28: a request a therapist other than the system admin issues for a
\* patient whose record names another therapist in enrolledBy leaves the
\* patient record and the patient's check-ins as they were and returns none
\* of the patient's check-ins.
IssuedFor(caller, pid) ==
    \/ SaveTherapyPatientBy(caller, pid, Profile(pid))
    \/ \E data \in ConcurrentInputs : SaveTherapyCheckinBy(caller, pid, data)
    \/ \E week \in ConcurrentWeekInputs : GetWeekDataBy(caller, pid, week)
    \/ DeletePatientDataBy(caller, pid)

C28_OtherTherapistKeptOut ==
    [][\A caller \in Callers \ {"admin@system"} : \A pid \in DOMAIN patients :
          (patients[pid].enrolledBy # caller /\ IssuedFor(caller, pid))
              => /\ pid \in DOMAIN patients'
                 /\ patients'[pid] = patients[pid]
                 /\ \A key \in DOMAIN checkins :
                        key[1] = pid => /\ key \in DOMAIN checkins'
                                        /\ checkins'[key] = checkins[key]
                 /\ \A key \in DOMAIN checkins' :
                        key[1] = pid => key \in DOMAIN checkins
                 /\ resp'.op = "get-week-data" => resp'.weekData = << >>]_vars

\* ----------------------------------------------------------------- C29
\* C29: a save-checkin, save-patient or delete-patient request answered
\* with a 4xx or 5xx status has left the patient records, the check-in
\* records and the check-in directories as they were before the request.
C29_ErrorLeavesStore ==
    [][(resp'.op \in {"save-checkin", "save-patient", "delete"} /\ resp'.status >= 400)
          => /\ patients' = patients
             /\ checkins' = checkins
             /\ checkinDirs' = checkinDirs]_vars

\* ----------------------------------------------------------------- C30
\* C30: the attachment an email-report request names in its preview is the
\* export that request generated, an export of the requested patient and
\* week.
C30_AttachmentIsOwnArtifact ==
    (Emailed /\ resp.status = 200 /\ ~resp.sent) =>
        /\ resp.attachment = resp.filename
        /\ resp.attachment.pid = resp.pid
        /\ resp.attachment.week = resp.week

====
